---- MODULE Spec2Model ----
(***************************************************************************)
(* Verification model of the transcription orchestration core of           *)
(* parth2411/transcription-platform:                                       *)
(*   - RateLimiter (backend/app/services/rate_limiter.py)                  *)
(*   - TranscriptionService chunked transcription and job processing       *)
(*     (backend/app/services/transcription_service.py)                     *)
(*   - the background job wrapper (backend/app/routes/transcriptions.py)   *)
(*   - provider call paths of the live / buffered streaming services       *)
(* Time is counted in whole seconds, sizes in MiB.                         *)
(***************************************************************************)
EXTENDS Integers, Sequences, FiniteSets, TLC

(***************************************************************************)
(* Bounds of the model                                                     *)
(***************************************************************************)
\* number of concurrent callers of the limiter
NumCallers == 3
\* the clock is observed during the first MaxTimePastDay seconds of day 0 and of day 1
MaxTimePastDay == 61
\* configured ceilings of the modelled limiter (RateLimitConfig is externally
\* configurable; small ceilings make both windows fill up)
requests_per_minute == 2
requests_per_day == 3

(***************************************************************************)
(* Program constants                                                       *)
(***************************************************************************)
MinuteWindow == 60
DayWindow == 86400
retry_attempts == 3
retry_delay == 2

Callers == 1..NumCallers
\* caller 1 goes through execute_with_retry(op), the others call acquire() directly
mode == [c \in Callers |-> IF c = 1 THEN "execute" ELSE "acquire"]
\* amounts by which the wall clock advances between two events
TickSteps == {20, 41, DayWindow}

(***************************************************************************)
(* Text.  Error messages are sequences of characters so that the           *)
(* classifier's lower-casing and substring search are computed.            *)
(***************************************************************************)
UpperToLower == [c \in {"R", "L", "T", "M", "H", "P", "O", "N", "Y", "E", "I", "A", "Q", "U", "S"} |->
                    CASE c = "R" -> "r" [] c = "L" -> "l" [] c = "T" -> "t"
                      [] c = "M" -> "m" [] c = "H" -> "h" [] c = "P" -> "p"
                      [] c = "O" -> "o" [] c = "N" -> "n" [] c = "Y" -> "y"
                      [] c = "E" -> "e" [] c = "I" -> "i" [] c = "A" -> "a"
                      [] c = "Q" -> "q" [] c = "U" -> "u" [] c = "S" -> "s"]

\* str.lower()
Lower(s) == [i \in 1..Len(s) |-> IF s[i] \in DOMAIN UpperToLower THEN UpperToLower[s[i]] ELSE s[i]]

\* Python's `term in s` for strings
Contains(term, s) ==
    \E i \in 1..(Len(s) - Len(term) + 1) : SubSeq(s, i, i + Len(term) - 1) = term

ThrottleTerms ==
    { <<"r","a","t","e"," ","l","i","m","i","t">>,
      <<"t","o","o"," ","m","a","n","y"," ","r","e","q","u","e","s","t","s">>,
      <<"4","2","9">> }

\* the mutant classifier retries on every error
IsRateLimitErrorAlways(msg) == TRUE

\* rate_limiter.py:165-168  any(term in str(e).lower() for term in [...])
IsRateLimitError(msg) == \E term \in ThrottleTerms : Contains(term, Lower(msg))

MsgRateLimit == <<"R","a","t","e"," ","L","i","m","i","t">>
MsgHttp429 == <<"H","T","T","P"," ","4","2","9">>
MsgTooMany == <<"T","O","O"," ","M","A","N","Y"," ","R","E","Q","U","E","S","T","S">>
MsgTimeout == <<"t","i","m","e","o","u","t">>
MsgRateHyphen == <<"r","a","t","e","-","l","i","m","i","t">>
\* the messages a provider operation may raise
OpErrors == {MsgRateLimit, MsgHttp429, MsgTooMany, MsgTimeout, MsgRateHyphen}
\* the messages among them that report provider throttling
ThrottlingMsgs == {MsgRateLimit, MsgHttp429, MsgTooMany}
NoError == <<>>

(***************************************************************************)
(* State                                                                   *)
(***************************************************************************)
VARIABLES
    \* RateLimiter
    clock,            \* datetime.now()
    enabled,          \* config.enabled
    minute_requests,  \* state.minute_requests (deque of timestamps)
    day_requests,     \* state.day_requests
    lock,             \* holder of self._lock, 0 when free
    pc,               \* position of each caller
    wakeAt,           \* earliest time at which the caller's asyncio.sleep returns
    attempt,          \* loop variable of execute_with_retry
    last_error,       \* last_error of execute_with_retry
    raised,           \* the exception execute_with_retry propagated
    \* history variables
    recent,           \* admissions of the enabled limiter in the last MinuteWindow seconds
    admitted,         \* times of all admissions of the enabled limiter, oldest first
    acquires,         \* acquire() calls completed within the current call
    calls,            \* invocations of the operation within the current call
    backoffs,         \* backoff sleeps begun within the current call
    allThrottled,     \* every invocation within the current call raised a throttling error
    opLast,           \* the message raised by the latest invocation of the operation
    nonThrottleAt     \* invocation count at which the operation raised a non-throttling error

VARIABLES
    \* JobOrchestrator
    job,              \* the Transcription row being processed
    jpc,              \* position of the background task
    audio_is_temp,    \* audio_path != file_path (an extracted audio file exists)
    exc,              \* text of the exception being propagated
    \* history variables
    stageExcs,        \* texts of the exceptions raised inside the stages, caught or not
    propagated,       \* text of the exception that left a stage call of process_*
    textAtFailure,    \* job.transcription_text when that exception left the stage
    transcribed,      \* the transcription stage returned a transcript
    storeOutcome,     \* what _store_in_knowledge_base returned ("none" when not called)
    stageLog          \* the stages run so far, with the text and summary each one handled

jobVars == <<job, jpc, audio_is_temp, exc, stageExcs, propagated, textAtFailure,
             transcribed, storeOutcome, stageLog>>

VARIABLES
    \* ChunkedTranscriber: one call of _transcribe_with_groq_chunked
    cpc,              \* position inside the call
    file_size,        \* os.path.getsize(audio_path), bytes
    duration,         \* what _get_audio_duration returns for audio_path, seconds
    num_chunks,       \* num_chunks of _split_audio_into_chunks
    slice_i,          \* loop variable i of the splitting loop
    chunks,           \* the list of chunk files: (source slice, size); slice 0 = audio_path
    seg_i,            \* loop variable i of the transcription loop
    transcriptions,   \* the list of per-segment strings
    unit,             \* the file handed to _transcribe_single_file
    origin,           \* which call site invoked _transcribe_single_file
    sattempt,         \* attempt of execute_with_retry inside _transcribe_single_file
    result,           \* the returned transcript
    cerror,           \* the message of the raised RuntimeError
    files,            \* temporary files that exist
    \* history variables
    sent,             \* sizes of the payloads sent to the speech-to-text provider
    requests,         \* provider requests made during this call
    throttles,        \* provider requests that were answered with a throttling error
    dropped,          \* slices that failed to cut or were discarded as degenerate
    segOutcome        \* per list position: the slice and how its transcription ended

chunkVars == <<cpc, file_size, duration, num_chunks, slice_i, chunks, seg_i, transcriptions,
               unit, origin, sattempt, result, cerror, files, sent, requests, throttles,
               dropped, segOutcome>>

VARIABLES
    \* live / streaming transcription paths
    active_sessions,  \* whether the recording session is in active_sessions
    audio_buffer,     \* session["audio_buffer"]: the buffered fragments
    transcript_chunks,\* len(session["transcript_chunks"])
    conn,             \* per WebSocket connection: where its handler stands
    arrived,          \* number of fragments received so far
    \* history variables
    flushes,          \* the batches handed to transcribe_buffer, oldest first
    saved,            \* what stop_recording saved, and what had arrived by then
    streamSent,       \* sizes of the payloads these paths sent to the provider
    providerCalls     \* provider requests issued: the path and how it was issued

streamVars == <<active_sessions, audio_buffer, transcript_chunks, conn, arrived,
                flushes, saved, streamSent, providerCalls>>

VARIABLES
    \* realtime-stream sessions (one user)
    stime,            \* time.time()
    tier,             \* current_user.subscription_tier
    registry,         \* transcription_contexts[user_id]: the context object, 0 if absent
    ctxs,             \* the context objects, by identity
    created,          \* number of context objects created so far
    begun,            \* number of fragments accepted so far
    rq,               \* the requests in flight: position, captured context
    \* history variables
    event,            \* the last response sent to the caller, with the flush behind it
    stopped           \* an explicit stop was requested and no fragment arrived since

realtimeVars == <<stime, tier, registry, ctxs, created, begun, rq, event, stopped>>

VARIABLES
    \* the routes that create jobs (routes/transcriptions.py)
    db_transcriptions,\* the transcriptions table: the status of each committed row, by id
    background_tasks, \* ids handed to background_tasks.add_task
    handler,          \* per request: where its handler stands
    \* history variables
    responses         \* per request: the status code last returned and the row it created

uploadVars == <<db_transcriptions, background_tasks, handler, responses>>

limiterVars == <<clock, enabled, minute_requests, day_requests, lock, pc, 
                 wakeAt, attempt, last_error, raised, recent, admitted, acquires,
                 calls, backoffs, allThrottled, opLast, nonThrottleAt>>

vars == <<limiterVars, jobVars, chunkVars, streamVars, realtimeVars, uploadVars>>

(***************************************************************************)
(* RateLimiter                                                             *)
(***************************************************************************)
RECURSIVE DropOld(_, _)
\* while q and q[0] < cutoff: q.popleft()
DropOld(q, cutoff) ==
    IF q # <<>> /\ Head(q) < cutoff THEN DropOld(Tail(q), cutoff) ELSE q

\* the mutant keeps minute-window entries one second too long
cleanup_minuteLate(q, now) == DropOld(q, now - MinuteWindow - 1)

\* _cleanup_old_requests(now), on the minute window
cleanup_minute(q, now) == DropOld(q, now - MinuteWindow)

\* the mutant prunes the day window with the minute window's length
cleanup_dayAsMinute(q, now) == DropOld(q, now - MinuteWindow)

\* _cleanup_old_requests(now), on the day window
cleanup_day(q, now) == DropOld(q, now - DayWindow)

Max(S) == CHOOSE x \in S : \A y \in S : y <= x

\* the mutant waits longer than the event loop is followed
calculate_wait_timeTooLong(mq, dq, now) == 3 * DayWindow

\* _calculate_wait_time(now), evaluated on the cleaned windows
calculate_wait_time(mq, dq, now) ==
    LET minute_wait == MinuteWindow - (now - Head(mq)) + 1
        day_wait == DayWindow - (now - Head(dq)) + 1
        wait_times ==
            (IF Len(mq) >= requests_per_minute /\ minute_wait > 0 THEN {minute_wait} ELSE {})
            \cup
            (IF Len(dq) >= requests_per_day /\ day_wait > 0 THEN {day_wait} ELSE {})
    IN  IF wait_times # {} THEN Max(wait_times) ELSE 1

\* the mutant admits when the window is already full
WithinLimitsOffByOne(mq, dq) ==
    Len(mq) <= requests_per_minute /\ Len(dq) <= requests_per_day

\* rate_limiter.py:75-76
WithinLimits(mq, dq) ==
    Len(mq) < requests_per_minute /\ Len(dq) < requests_per_day

\* the mutant admits without recording the request
RecordRequestNothing(q, now) == q

\* state.minute_requests.append(now); state.day_requests.append(now)
RecordRequest(q, now) == Append(q, now)

\* One pass of acquire()'s body with the lock held: clean up at `now`, then
\* either record the request and return, or start sleeping with the lock held.
AcquirePass(c) ==
    LET now == clock
        mq == cleanup_minute(minute_requests, now)
        dq == cleanup_day(day_requests, now)
    IN  IF WithinLimits(mq, dq)
        THEN /\ minute_requests' = RecordRequest(mq, now)
             /\ day_requests' = RecordRequest(dq, now)
             /\ recent' = Append(recent, now)
             /\ admitted' = Append(admitted, now)
             /\ acquires' = [acquires EXCEPT ![c] = @ + 1]
             /\ lock' = 0
             /\ pc' = [pc EXCEPT ![c] = IF mode[c] = "acquire" THEN "returned" ELSE "call"]
             /\ wakeAt' = [wakeAt EXCEPT ![c] = 0]
        ELSE /\ minute_requests' = mq
             /\ day_requests' = dq
             /\ lock' = c
             /\ wakeAt' = [wakeAt EXCEPT ![c] = now + calculate_wait_time(mq, dq, now)]
             /\ pc' = [pc EXCEPT ![c] = "sleeping"]
             /\ UNCHANGED <<recent, admitted, acquires>>

\* A caller starts acquire() or execute_with_retry(op).
Start(c) ==
    /\ pc[c] = "idle"
    /\ pc' = [pc EXCEPT ![c] = "acquire"]
    /\ UNCHANGED <<clock, enabled, minute_requests, day_requests, lock, wakeAt, attempt,
                   last_error, raised, recent, admitted, acquires, calls, backoffs, allThrottled,
                   opLast, nonThrottleAt>>

\* acquire() on a disabled limiter returns True at once, recording nothing.
AcquireDisabled(c) ==
    /\ pc[c] = "acquire"
    /\ ~enabled
    /\ acquires' = [acquires EXCEPT ![c] = @ + 1]
    /\ pc' = [pc EXCEPT ![c] = IF mode[c] = "acquire" THEN "returned" ELSE "call"]
    /\ UNCHANGED <<clock, enabled, minute_requests, day_requests, lock, wakeAt,
                   attempt, last_error, raised, recent, admitted, calls, backoffs,
                   allThrottled, opLast, nonThrottleAt>>

\* acquire(): the caller obtains the lock and runs the first pass.
AcquireEnter(c) ==
    /\ pc[c] = "acquire"
    /\ enabled
    /\ lock = 0
    /\ AcquirePass(c)
    /\ UNCHANGED <<clock, enabled, attempt, last_error, raised,
                   calls, backoffs, allThrottled, opLast, nonThrottleAt>>

\* acquire(): asyncio.sleep(wait_time) returns; now is re-read and the loop runs again.
AcquireWake(c) ==
    /\ pc[c] = "sleeping"
    /\ lock = c
    /\ clock >= wakeAt[c]
    /\ AcquirePass(c)
    /\ UNCHANGED <<clock, enabled, attempt, last_error, raised,
                   calls, backoffs, allThrottled, opLast, nonThrottleAt>>

\* execute_with_retry: the operation returns a result.
OpReturns(c) ==
    /\ pc[c] = "call"
    /\ calls' = [calls EXCEPT ![c] = @ + 1]
    /\ pc' = [pc EXCEPT ![c] = "returned"]
    /\ UNCHANGED <<clock, enabled, minute_requests, day_requests, lock, wakeAt,
                   attempt, last_error, raised, recent, admitted, acquires, backoffs,
                   allThrottled, opLast, nonThrottleAt>>

\* execute_with_retry: the operation raises; the except clause classifies it.
OpRaises(c, msg) ==
    /\ pc[c] = "call"
    /\ calls' = [calls EXCEPT ![c] = @ + 1]
    /\ opLast' = [opLast EXCEPT ![c] = msg]
    /\ allThrottled' = [allThrottled EXCEPT ![c] = @ /\ msg \in ThrottlingMsgs]
    /\ nonThrottleAt' = [nonThrottleAt EXCEPT ![c] =
                            IF msg \notin ThrottlingMsgs /\ @ = 0 THEN calls[c] + 1 ELSE @]
    /\ last_error' = [last_error EXCEPT ![c] = msg]
    /\ IF IsRateLimitError(msg)
       THEN /\ wakeAt' = [wakeAt EXCEPT ![c] = clock + retry_delay * (attempt[c] + 1)]
            /\ backoffs' = [backoffs EXCEPT ![c] = @ + 1]
            /\ pc' = [pc EXCEPT ![c] = "backoff"]
            /\ UNCHANGED raised
       ELSE /\ raised' = [raised EXCEPT ![c] = msg]
            /\ pc' = [pc EXCEPT ![c] = "raised"]
            /\ UNCHANGED <<wakeAt, backoffs>>
    /\ UNCHANGED <<clock, enabled, minute_requests, day_requests, lock,
                   attempt, recent, admitted, acquires>>

\* the mutant loop makes one attempt too many
MoreAttemptsOneTooMany(a) == a <= retry_attempts

\* for attempt in range(retry_attempts): is there another iteration
MoreAttempts(a) == a < retry_attempts

\* execute_with_retry: the backoff sleep returns and the loop continues, or the
\* loop is exhausted and last_error is raised.
BackoffWake(c) ==
    /\ pc[c] = "backoff"
    /\ clock >= wakeAt[c]
    /\ wakeAt' = [wakeAt EXCEPT ![c] = 0]
    /\ attempt' = [attempt EXCEPT ![c] = @ + 1]
    /\ IF MoreAttempts(attempt[c] + 1)
       THEN /\ pc' = [pc EXCEPT ![c] = "acquire"]
            /\ UNCHANGED raised
       ELSE /\ pc' = [pc EXCEPT ![c] = "raised"]
            /\ raised' = [raised EXCEPT ![c] = last_error[c]]
    /\ UNCHANGED <<clock, enabled, minute_requests, day_requests, lock, 
                   last_error, recent, admitted, acquires, calls, backoffs, allThrottled,
                   opLast, nonThrottleAt>>

\* get_stats(): cleans both windows at the current time.
GetStats ==
    /\ minute_requests' = cleanup_minute(minute_requests, clock)
    /\ day_requests' = cleanup_day(day_requests, clock)
    /\ \/ minute_requests' # minute_requests
       \/ day_requests' # day_requests
    /\ UNCHANGED <<clock, enabled, lock, pc, wakeAt, attempt, last_error, raised,
                   recent, admitted, acquires, calls, backoffs, allThrottled, opLast, nonThrottleAt>>

\* the wall clock advances
Tick(d) ==
    /\ clock + d <= DayWindow + MaxTimePastDay
    /\ (clock % DayWindow) + (d % DayWindow) <= MaxTimePastDay
    /\ clock' = clock + d
    /\ recent' = SelectSeq(recent, LAMBDA t : t >= clock' - MinuteWindow)
    /\ UNCHANGED <<enabled, minute_requests, day_requests, lock, pc, wakeAt, attempt,
                   last_error, raised, admitted, acquires, calls, backoffs,
                   allThrottled, opLast, nonThrottleAt>>

\* callers waiting on a timer: asyncio.sleep in acquire() or in the retry backoff
TimedWaiters == {c \in Callers : pc[c] \in {"sleeping", "backoff"}}

\* caller c cannot take a step at the current time
Blocked(c) ==
    \/ pc[c] \in {"returned", "raised"}
    \/ pc[c] \in {"sleeping", "backoff"} /\ clock < wakeAt[c]
    \/ pc[c] = "acquire" /\ enabled /\ lock # 0

Min(S) == CHOOSE x \in S : \A y \in S : x <= y

\* latest time the event loop is followed to
LiveHorizon == 2 * DayWindow

\* The event loop has no ready task: time passes until the earliest pending
\* asyncio.sleep expires (over: by how much the timer fires late).
TimePasses(over) ==
    /\ \A c \in Callers : Blocked(c)
    /\ TimedWaiters # {}
    /\ clock' = Min({wakeAt[c] : c \in TimedWaiters}) + over
    /\ clock' <= LiveHorizon
    /\ recent' = SelectSeq(recent, LAMBDA t : t >= clock' - MinuteWindow)
    /\ UNCHANGED <<enabled, minute_requests, day_requests, lock, pc, wakeAt, attempt,
                   last_error, raised, admitted, acquires, calls, backoffs,
                   allThrottled, opLast, nonThrottleAt>>

\* the steps of caller c
CallerStep(c) ==
    \/ Start(c)
    \/ AcquireDisabled(c)
    \/ AcquireEnter(c)
    \/ AcquireWake(c)
    \/ OpReturns(c)
    \/ \E msg \in OpErrors : OpRaises(c, msg)
    \/ BackoffWake(c)

\* the limiter driven by the event loop: callers run whenever they can and time
\* passes only while every caller waits
NextLive ==
    \/ \E c \in Callers : CallerStep(c)
    \/ \E over \in {0, 1} : TimePasses(over)

InitLimiter ==
    /\ clock = 0
    /\ enabled \in BOOLEAN
    /\ minute_requests = <<>>
    /\ day_requests = <<>>
    /\ lock = 0
    /\ pc = [c \in Callers |-> "idle"]
    /\ wakeAt = [c \in Callers |-> 0]
    /\ attempt = [c \in Callers |-> 0]
    /\ last_error = [c \in Callers |-> NoError]
    /\ raised = [c \in Callers |-> NoError]
    /\ recent = <<>>
    /\ admitted = <<>>
    /\ acquires = [c \in Callers |-> 0]
    /\ calls = [c \in Callers |-> 0]
    /\ backoffs = [c \in Callers |-> 0]
    /\ allThrottled = [c \in Callers |-> TRUE]
    /\ opLast = [c \in Callers |-> NoError]
    /\ nonThrottleAt = [c \in Callers |-> 0]

NextLimiter ==
    \/ \E c \in Callers : Start(c)
    \/ \E c \in Callers : AcquireDisabled(c)
    \/ \E c \in Callers : AcquireEnter(c)
    \/ \E c \in Callers : AcquireWake(c)
    \/ \E c \in Callers : OpReturns(c)
    \/ \E c \in Callers, msg \in OpErrors : OpRaises(c, msg)
    \/ \E c \in Callers : BackoffWake(c)
    \/ GetStats
    \/ \E d \in TickSteps : Tick(d)

(***************************************************************************)
(* JobOrchestrator: process_transcription_background and                   *)
(* TranscriptionService.process_{file,url,text}_transcription              *)
(***************************************************************************)
\* attributes of the Transcription ORM class (models.py)
TranscriptionColumns ==
    {"id", "user_id", "title", "original_filename", "file_url", "file_type", "file_size",
     "duration_seconds", "transcription_text", "summary_text", "diarization_data",
     "speaker_count", "status", "language", "confidence_score", "embedding",
     "generate_summary", "speaker_diarization", "add_to_knowledge_base",
     "processing_time_seconds", "error_message", "created_at", "updated_at",
     "completed_at", "folder_id", "is_favorite", "user", "chunks"}

\* reading result.<name>: an attribute the class lacks raises AttributeError
HasAttr(name) == name \in TranscriptionColumns

Kinds == {"file", "url", "text"}
\* transcripts the chunked transcriber may return (an empty one when no chunk was cut)
TranscriptTexts == {"", "hello world"}
SubmittedText == "typed text"
ErrTranscription == "Transcription failed: provider error"
ErrDownload == "Download failed: Video unavailable"
ErrRemove == "[Errno 2] No such file or directory"
ErrExtraction == "Audio extraction failed: ffmpeg"
ErrDuration == "could not convert string to float"
ErrSummary == "Summary provider error"
ErrStore == "Knowledge base store error"
ErrAttribute == "'Transcription' object has no attribute 'qdrant_point_ids'"
SummaryFailed == "Summary generation failed"
SummaryText == "summary"
NoText == "<none>"

\* the mutant records a fixed text instead of the exception's
ErrorTextGeneric(e) == "Processing failed"

\* transcription.error_message = str(e)
ErrorText(e) == e

\* `not transcription.title or transcription.title.strip() == ""`
TitleBlank(title) == title = ""

\* process_*: `except Exception as e` sets the job failed and re-raises.
ProcessExcept(j, e) ==
    [j EXCEPT !.status = "failed", !.error_message = ErrorText(e)]

\* a stage that ran, with the transcript and the summary it left on the row
Stage(name, j) == [stage |-> name, text |-> j.transcription_text, summary |-> j.summary_text]

\* the mutant store call is passed no summary
StoreArgumentsNoSummary(j) == [stage |-> "store", text |-> j.transcription_text, summary |-> NoText]

\* _store_in_knowledge_base(transcription=transcription_text,
\*                          summary=transcription.summary_text, ...)
StoreArguments(j) == [stage |-> "store", text |-> j.transcription_text, summary |-> j.summary_text]

\* the wrapper starts: the row is loaded and process_* sets status to processing
\* (process_text_transcription also assigns the submitted text).
BgStart ==
    /\ jpc = "scheduled"
    /\ job' = [job EXCEPT !.status = "processing",
                          !.transcription_text =
                              IF job.kind = "text" THEN SubmittedText ELSE @]
    /\ jpc' = CASE job.kind = "file" -> "extract"
                [] job.kind = "url" -> "download"
                [] job.kind = "text" -> "summary"
    /\ transcribed' = (job.kind = "text")
    /\ UNCHANGED <<audio_is_temp, exc, stageExcs, propagated, textAtFailure, storeOutcome>>
    /\ stageLog' = Append(stageLog, Stage("processing", job'))

\* file: _extract_audio_if_needed returns the input path (not a video, or the
\* extraction failed and the error was caught) or the path of the extracted audio.
ExtractAudio(outcome) ==
    /\ jpc = "extract"
    /\ audio_is_temp' = (outcome = "extracted")
    /\ stageExcs' = IF outcome = "ffmpeg_failed" THEN stageExcs \cup {ErrExtraction}
                    ELSE stageExcs
    /\ jpc' = "duration"
    /\ UNCHANGED <<job, exc, propagated, textAtFailure, transcribed, storeOutcome, stageLog>>

\* url: _download_audio_from_url returns, or raises RuntimeError("Download failed: ...").
Download(ok) ==
    /\ jpc = "download"
    /\ IF ok
       THEN /\ jpc' = "duration"
            /\ UNCHANGED <<exc, stageExcs, propagated, textAtFailure>>
       ELSE /\ jpc' = "process_except"
            /\ exc' = ErrDownload
            /\ stageExcs' = stageExcs \cup {ErrDownload}
            /\ propagated' = ErrDownload
            /\ textAtFailure' = job.transcription_text
    /\ UNCHANGED <<job, audio_is_temp, transcribed, storeOutcome, stageLog>>

\* _get_audio_duration: the probed duration, or 0.0 when the probe failed.
ProbeDuration(ok) ==
    /\ jpc = "duration"
    /\ job' = [job EXCEPT !.duration_seconds = IF ok THEN 180 ELSE 0]
    /\ stageExcs' = IF ok THEN stageExcs ELSE stageExcs \cup {ErrDuration}
    /\ jpc' = "transcribe"
    /\ UNCHANGED <<audio_is_temp, exc, propagated, textAtFailure, transcribed, storeOutcome, stageLog>>

\* _transcribe_with_groq_chunked returns the transcript, which is assigned to the
\* job; a blank title would then be replaced (titles are never blank here).
TranscribeOk(text) ==
    /\ jpc = "transcribe"
    /\ job' = [job EXCEPT !.transcription_text = text,
                          !.title = IF TitleBlank(@) THEN "generated title" ELSE @]
    /\ transcribed' = TRUE
    /\ jpc' = "summary"
    /\ UNCHANGED <<audio_is_temp, exc, stageExcs, propagated, textAtFailure, storeOutcome>>
    /\ stageLog' = Append(stageLog, Stage("transcription", job'))

\* _transcribe_with_groq_chunked raises RuntimeError("Transcription failed: ...").
TranscribeRaises ==
    /\ jpc = "transcribe"
    /\ jpc' = "process_except"
    /\ exc' = ErrTranscription
    /\ stageExcs' = stageExcs \cup {ErrTranscription}
    /\ propagated' = ErrTranscription
    /\ textAtFailure' = job.transcription_text
    /\ UNCHANGED <<job, audio_is_temp, transcribed, storeOutcome, stageLog>>

\* does the job ask for a summary at this point
WantsSummary(j) ==
    j.generate_summary /\ (j.kind = "text" \/ j.transcription_text # "")

\* _generate_summary: the summary, or the fixed failure text when the provider
\* call raised (the exception is caught inside).
Summarize(ok) ==
    /\ jpc = "summary"
    /\ IF WantsSummary(job)
       THEN /\ job' = [job EXCEPT !.summary_text = IF ok THEN SummaryText ELSE SummaryFailed]
            /\ stageExcs' = IF ok THEN stageExcs ELSE stageExcs \cup {ErrSummary}
            /\ stageLog' = Append(stageLog, Stage("summary", job'))
       ELSE /\ ok
            /\ UNCHANGED <<job, stageExcs, stageLog>>
    /\ jpc' = "store"
    /\ UNCHANGED <<audio_is_temp, exc, propagated, textAtFailure, transcribed, storeOutcome>>

\* does the job ask for the knowledge-base store at this point
WantsStore(j) ==
    j.add_to_knowledge_base /\ (j.kind = "text" \/ j.transcription_text # "")

\* _store_in_knowledge_base returns True, or False when the store raised.
Store(ok) ==
    /\ jpc = "store"
    /\ IF WantsStore(job)
       THEN /\ storeOutcome' = IF ok THEN "stored" ELSE "failed"
            /\ stageExcs' = IF ok THEN stageExcs ELSE stageExcs \cup {ErrStore}
            /\ stageLog' = Append(stageLog, StoreArguments(job))
       ELSE /\ ok
            /\ UNCHANGED <<storeOutcome, stageExcs, stageLog>>
    /\ jpc' = IF job.kind = "file" THEN "cleanup" ELSE "complete"
    /\ UNCHANGED <<job, audio_is_temp, exc, propagated, textAtFailure, transcribed>>

\* file: os.remove(audio_path) when an audio file was extracted; it may raise OSError.
Cleanup(ok) ==
    /\ jpc = "cleanup"
    /\ IF audio_is_temp /\ ~ok
       THEN /\ jpc' = "process_except"
            /\ exc' = ErrRemove
            /\ stageExcs' = stageExcs \cup {ErrRemove}
            /\ propagated' = ErrRemove
            /\ textAtFailure' = job.transcription_text
            /\ UNCHANGED audio_is_temp
       ELSE /\ ok
            /\ jpc' = "complete"
            /\ audio_is_temp' = FALSE
            /\ UNCHANGED <<exc, stageExcs, propagated, textAtFailure>>
    /\ UNCHANGED <<job, transcribed, storeOutcome, stageLog>>

\* process_*: status = "completed", commit, return to the wrapper.
Complete ==
    /\ jpc = "complete"
    /\ job' = [job EXCEPT !.status = "completed"]
    /\ jpc' = "post"
    /\ UNCHANGED <<audio_is_temp, exc, stageExcs, propagated, textAtFailure, transcribed,
                   storeOutcome>>
    /\ stageLog' = Append(stageLog, Stage("completed", job'))

\* process_*: the except clause marks the job failed and re-raises to the wrapper.
ProcessHandler ==
    /\ jpc = "process_except"
    /\ job' = ProcessExcept(job, exc)
    /\ jpc' = "wrapper_except"
    /\ UNCHANGED <<audio_is_temp, exc, stageExcs, propagated, textAtFailure, transcribed,
                   storeOutcome, stageLog>>

\* wrapper, lines 133-141: logs result.status and, when add_to_knowledge_base is
\* set, reads result.qdrant_point_ids.
PostProcess ==
    /\ jpc = "post"
    /\ IF job.add_to_knowledge_base /\ ~HasAttr("qdrant_point_ids")
       THEN /\ jpc' = "wrapper_except"
            /\ exc' = ErrAttribute
       ELSE /\ jpc' = "done"
            /\ UNCHANGED exc
    /\ UNCHANGED <<job, audio_is_temp, stageExcs, propagated, textAtFailure, transcribed,
                   storeOutcome, stageLog>>

\* wrapper, lines 143-156: the except clause marks the job failed.
WrapperHandler ==
    /\ jpc = "wrapper_except"
    /\ job' = [job EXCEPT !.status = "failed", !.error_message = ErrorText(exc)]
    /\ jpc' = "done"
    /\ UNCHANGED <<audio_is_temp, exc, stageExcs, propagated, textAtFailure, transcribed,
                   storeOutcome, stageLog>>

\* the row as the routes create it, and the background task scheduled
InitJob ==
    /\ job \in [kind : Kinds,
                status : {"pending"},
                title : {"given title"},
                transcription_text : {NoText},
                summary_text : {NoText},
                error_message : {NoText},
                duration_seconds : {0},
                generate_summary : BOOLEAN,
                add_to_knowledge_base : BOOLEAN]
    /\ jpc = "scheduled"
    /\ audio_is_temp = FALSE
    /\ exc = NoText
    /\ stageExcs = {}
    /\ propagated = NoText
    /\ textAtFailure = NoText
    /\ transcribed = FALSE
    /\ storeOutcome = "none"
    /\ stageLog = <<>>

NextJob ==
    \/ BgStart
    \/ \E o \in {"not_video", "extracted", "ffmpeg_failed"} : ExtractAudio(o)
    \/ \E ok \in BOOLEAN : Download(ok)
    \/ \E ok \in BOOLEAN : ProbeDuration(ok)
    \/ \E t \in TranscriptTexts : TranscribeOk(t)
    \/ TranscribeRaises
    \/ \E ok \in BOOLEAN : Summarize(ok)
    \/ \E ok \in BOOLEAN : Store(ok)
    \/ \E ok \in BOOLEAN : Cleanup(ok)
    \/ Complete
    \/ ProcessHandler
    \/ PostProcess
    \/ WrapperHandler

\* the job orchestrator at rest, for the specifications of the other components
JobIdle ==
    /\ job = [kind |-> "file", status |-> "pending", title |-> "given title",
              transcription_text |-> NoText, summary_text |-> NoText,
              error_message |-> NoText, duration_seconds |-> 0,
              generate_summary |-> FALSE, add_to_knowledge_base |-> FALSE]
    /\ jpc = "idle"
    /\ audio_is_temp = FALSE
    /\ exc = NoText
    /\ stageExcs = {}
    /\ propagated = NoText
    /\ textAtFailure = NoText
    /\ transcribed = FALSE
    /\ storeOutcome = "none"
    /\ stageLog = <<>>

(***************************************************************************)
(* ChunkedTranscriber: _transcribe_with_groq_chunked,                      *)
(* _split_audio_into_chunks, _transcribe_single_file                       *)
(***************************************************************************)
MiB == 1024 * 1024
\* self.MAX_FILE_SIZE
MAX_FILE_SIZE == 24 * MiB
\* self.CHUNK_SIZE_MINUTES
CHUNK_SIZE_MINUTES == 8
\* a chunk file must be larger than this many bytes to be kept
MinChunkBytes == 1000

\* sizes of the submitted audio file
FileSizes == {MAX_FILE_SIZE, MAX_FILE_SIZE + 1}
\* durations the probe reports (0 when it failed)
Durations == {0, 480, 481, 1200}
\* what cutting one slice yields: no file, or a file of some size
SliceResults ==
    {[ok |-> FALSE, size |-> 0]} \cup
    {[ok |-> TRUE, size |-> sz] : sz \in {MinChunkBytes, 15 * MiB, MAX_FILE_SIZE + 1}}
\* sizes _compress_audio_aggressive may produce
CompressedSizes == {3 * MiB, MAX_FILE_SIZE + 1}

\* Text is a sequence of tokens.
Marker(n) == [t |-> "marker", n |-> n, w |-> <<>>]
Word(j) == [t |-> "word", n |-> j, w |-> <<"text">>]
FailedNote(reason) == [t |-> "failed", n |-> 0, w |-> reason]
BlankLine == [t |-> "sep", n |-> 0, w |-> <<>>]

\* what the provider transcribes from slice j of the media (0: the whole file)
ProviderText(j) == <<Word(j)>>

TranscriptionFailedPrefix ==
    <<"T","r","a","n","s","c","r","i","p","t","i","o","n"," ","f","a","i","l","e","d",":"," ">>
\* RuntimeError(f"Transcription failed: {str(e)}")
Wrap(msg) == TranscriptionFailedPrefix \o msg
MsgTooLarge == <<"F","i","l","e"," ","s","t","i","l","l"," ","t","o","o"," ","l","a","r","g","e">>
ProviderErrors == {MsgHttp429, MsgTimeout}

\* math.ceil(duration / chunk_duration)
CeilDiv(a, b) == (a + b - 1) \div b

\* the mutant rounds the chunk count down
NumChunksFloor(d, chunk_duration) == d \div chunk_duration

\* num_chunks = math.ceil(duration / chunk_duration)
NumChunks(d, chunk_duration) == CeilDiv(d, chunk_duration)

\* the mutant sends files of exactly MAX_FILE_SIZE to the splitter
FitsProviderStrict(size) == size < MAX_FILE_SIZE

\* file_size <= self.MAX_FILE_SIZE
FitsProvider(size) == size <= MAX_FILE_SIZE

\* `not text.strip()`
IsBlank(text) == text = <<>>

\* the mutant leaves the segment marker out of the placeholder
FailedEntryUnnumbered(i, msg) == <<FailedNote(msg)>>

\* f"[Segment {i+1}] [Transcription failed: {str(e)}]"
FailedEntry(i, msg) == <<Marker(i + 1), FailedNote(msg)>>

\* the mutant numbers the segments from 0
SegmentEntryFromZero(i, text) == <<Marker(i)>> \o text

\* f"[Segment {i+1}] {chunk_transcription}"
SegmentEntry(i, text) == <<Marker(i + 1)>> \o text

RECURSIVE Join(_)
\* "\n\n".join(transcriptions)
Join(list) ==
    IF list = <<>> THEN <<>>
    ELSE IF Len(list) = 1 THEN Head(list)
    ELSE Head(list) \o <<BlankLine>> \o Join(Tail(list))

ChunkFile(j) == [kind |-> "chunk", slice |-> j]
CompressedFile(j) == [kind |-> "compressed", slice |-> j]
NoUnit == [slice |-> 0, size |-> 0]

\* _transcribe_with_groq_chunked(audio_path) is called.  A file that fits the
\* provider goes straight to _transcribe_single_file; a larger one is split.
\* A duration of at most one chunk yields [audio_path] without splitting.
ChunkedStart(size, d) ==
    /\ cpc = "idle"
    /\ file_size' = size
    /\ duration' = d
    /\ IF FitsProvider(size)
       THEN /\ cpc' = "single"
            /\ unit' = [slice |-> 0, size |-> size]
            /\ origin' = "direct"
            /\ UNCHANGED <<num_chunks, chunks>>
       ELSE IF d <= CHUNK_SIZE_MINUTES * 60
            THEN /\ cpc' = "split_done"
                 /\ chunks' = <<[slice |-> 0, size |-> size]>>
                 /\ UNCHANGED <<num_chunks, unit, origin>>
            ELSE /\ cpc' = "split"
                 /\ num_chunks' = NumChunks(d, CHUNK_SIZE_MINUTES * 60)
                 /\ chunks' = <<>>
                 /\ UNCHANGED <<unit, origin>>
    /\ UNCHANGED <<slice_i, seg_i, transcriptions, sattempt, result, cerror, files, sent,
                   requests, throttles, dropped, segOutcome>>

\* one iteration of the splitting loop: ffmpeg cuts slice i; the chunk is kept
\* when the file exists and is larger than 1000 bytes, removed when smaller.
SplitSlice(r) ==
    /\ cpc = "split"
    /\ slice_i < num_chunks
    /\ LET j == slice_i + 1
       IN  IF r.ok /\ r.size > MinChunkBytes
           THEN /\ chunks' = Append(chunks, [slice |-> j, size |-> r.size])
                /\ files' = files \cup {ChunkFile(j)}
                /\ UNCHANGED dropped
           ELSE /\ dropped' = dropped \cup {j}
                /\ UNCHANGED <<chunks, files>>
    /\ slice_i' = slice_i + 1
    /\ cpc' = IF slice_i + 1 = num_chunks THEN "split_done" ELSE "split"
    /\ UNCHANGED <<file_size, duration, num_chunks, seg_i, transcriptions, unit, origin,
                   sattempt, result, cerror, sent, requests, throttles, segOutcome>>

\* the splitting loop raises (subprocess timeout): fall back to [audio_path]
SplitRaises ==
    /\ cpc = "split"
    /\ slice_i < num_chunks
    /\ chunks' = <<[slice |-> 0, size |-> file_size]>>
    /\ cpc' = "split_done"
    /\ UNCHANGED <<file_size, duration, num_chunks, slice_i, seg_i, transcriptions, unit,
                   origin, sattempt, result, cerror, files, sent, requests, throttles,
                   dropped, segOutcome>>

\* after the split: a single chunk is transcribed without a marker, otherwise
\* the transcription loop starts (with no chunk at all it ends at once).
AfterSplit ==
    /\ cpc = "split_done"
    /\ IF Len(chunks) = 1
       THEN /\ cpc' = "single"
            /\ unit' = chunks[1]
            /\ origin' = "only"
            /\ UNCHANGED <<seg_i, result>>
       ELSE IF Len(chunks) = 0
            THEN /\ cpc' = "returned"
                 /\ result' = Join(transcriptions)
                 /\ UNCHANGED <<unit, origin, seg_i>>
            ELSE /\ cpc' = "single"
                 /\ seg_i' = 0
                 /\ unit' = chunks[1]
                 /\ origin' = "loop"
                 /\ UNCHANGED result
    /\ UNCHANGED <<file_size, duration, num_chunks, slice_i, chunks, transcriptions,
                   sattempt, cerror, files, sent, requests, throttles, dropped, segOutcome>>

\* How _transcribe_single_file ends for the current unit, e being the text of
\* the RuntimeError it raises and f the temporary files existing at that point.
\* In the loop the segment's entry is appended (the chunk file is removed only
\* on success) and the loop moves on, or the joined transcript is returned;
\* outside the loop the text is returned, or the error wrapped and raised.
SingleEnds(ok, text, e, f) ==
    IF origin = "loop"
    THEN LET list == IF ok
                     THEN IF IsBlank(text) THEN transcriptions
                          ELSE Append(transcriptions, SegmentEntry(seg_i, text))
                     ELSE Append(transcriptions, FailedEntry(seg_i, e))
         IN  /\ transcriptions' = list
             /\ segOutcome' = Append(segOutcome, [slice |-> chunks[seg_i + 1].slice,
                                                  ok |-> ok,
                                                  msg |-> IF ok THEN <<>> ELSE e])
             /\ files' = IF ok THEN f \ {ChunkFile(chunks[seg_i + 1].slice)} ELSE f
             /\ seg_i' = seg_i + 1
             /\ IF seg_i + 1 < Len(chunks)
                THEN /\ cpc' = "single"
                     /\ unit' = chunks[seg_i + 2]
                     /\ UNCHANGED <<result, cerror>>
                ELSE /\ cpc' = "returned"
                     /\ result' = Join(list)
                     /\ UNCHANGED <<unit, cerror>>
    ELSE /\ IF ok
            THEN /\ cpc' = "returned"
                 /\ result' = text
                 /\ UNCHANGED cerror
            ELSE /\ cpc' = "raised"
                 /\ cerror' = Wrap(e)
                 /\ UNCHANGED result
         /\ files' = f
         /\ UNCHANGED <<transcriptions, segOutcome, seg_i, unit>>

NoCompression == [ok |-> FALSE, size |-> 0]

\* _transcribe_single_file, size check: a unit over MAX_FILE_SIZE is compressed
\* (c.ok: ffmpeg succeeded and wrote a file of c.size); the copy is used when it
\* fits, otherwise RuntimeError("File still too large after compression").
SingleSizeCheck(c) ==
    /\ cpc = "single"
    /\ IF unit.size > MAX_FILE_SIZE
       THEN LET newSize == IF c.ok THEN c.size ELSE unit.size
                f == IF c.ok THEN files \cup {CompressedFile(unit.slice)} ELSE files
            IN  IF newSize <= MAX_FILE_SIZE
                THEN /\ unit' = [unit EXCEPT !.size = newSize]
                     /\ files' = f
                     /\ cpc' = "call"
                     /\ UNCHANGED <<transcriptions, segOutcome, seg_i, result, cerror>>
                ELSE SingleEnds(FALSE, <<>>, Wrap(MsgTooLarge), f)
       ELSE /\ c = NoCompression
            /\ cpc' = "call"
            /\ UNCHANGED <<unit, files, transcriptions, segOutcome, seg_i, result, cerror>>
    /\ sattempt' = 0
    /\ UNCHANGED <<file_size, duration, num_chunks, slice_i, chunks, origin, sent, requests,
                   throttles, dropped>>

\* one attempt of execute_with_retry(_do_transcription): the unit is sent to the
\* provider, which returns its text.
ProviderReturns ==
    /\ cpc = "call"
    /\ sent' = sent \cup {unit.size}
    /\ requests' = requests + 1
    /\ SingleEnds(TRUE, ProviderText(unit.slice), <<>>, files)
    /\ UNCHANGED <<file_size, duration, num_chunks, slice_i, chunks, origin, sattempt,
                   throttles, dropped>>

\* one attempt of execute_with_retry(_do_transcription): the provider call raises;
\* a throttling error is retried while attempts remain.
ProviderRaises(msg) ==
    /\ cpc = "call"
    /\ sent' = sent \cup {unit.size}
    /\ requests' = requests + 1
    /\ throttles' = IF msg \in ThrottlingMsgs THEN throttles + 1 ELSE throttles
    /\ IF IsRateLimitError(msg) /\ MoreAttempts(sattempt + 1)
       THEN /\ sattempt' = sattempt + 1
            /\ UNCHANGED <<cpc, transcriptions, segOutcome, files, seg_i, unit, result, cerror>>
       ELSE /\ SingleEnds(FALSE, <<>>, Wrap(msg), files)
            /\ UNCHANGED sattempt
    /\ UNCHANGED <<file_size, duration, num_chunks, slice_i, chunks, origin, dropped>>

ChunkIdle ==
    /\ cpc = "idle"
    /\ file_size = 0
    /\ duration = 0
    /\ num_chunks = 0
    /\ slice_i = 0
    /\ chunks = <<>>
    /\ seg_i = 0
    /\ transcriptions = <<>>
    /\ unit = NoUnit
    /\ origin = "none"
    /\ sattempt = 0
    /\ result = <<>>
    /\ cerror = <<>>
    /\ files = {}
    /\ sent = {}
    /\ requests = 0
    /\ throttles = 0
    /\ dropped = {}
    /\ segOutcome = <<>>

InitChunk == ChunkIdle

NextChunk ==
    \/ \E size \in FileSizes, d \in Durations : ChunkedStart(size, d)
    \/ \E r \in SliceResults : SplitSlice(r)
    \/ SplitRaises
    \/ AfterSplit
    \/ \E c \in {NoCompression} \cup {[ok |-> TRUE, size |-> sz] : sz \in CompressedSizes} :
           SingleSizeCheck(c)
    \/ ProviderReturns
    \/ \E msg \in ProviderErrors : ProviderRaises(msg)

(***************************************************************************)
(* Provider call paths of the live and streaming endpoints                 *)
(***************************************************************************)
KiB == 1024
\* recording_websocket flushes when the buffer holds this many fragments
FlushCount == 5
\* sizes of the audio files handed to the per-request paths
PayloadSizes == {512, 2 * KiB, 10 * KiB, MAX_FILE_SIZE, MAX_FILE_SIZE + 1}
\* sizes of the fragments a WebSocket client sends
FragmentSizes == {2 * KiB, 6 * MiB}
\* fragments received over the WebSocket in a run
MaxArrived == 10
\* WebSocket connections opened for the session
ConnIds == {1, 2}
\* what the per-request paths leave alone
wsVars == <<active_sessions, audio_buffer, transcript_chunks, conn, arrived, flushes, saved>>

RECURSIVE Sum(_)
\* len(b''.join(audio_chunks))
Sum(sizes) == IF sizes = <<>> THEN 0 ELSE Head(sizes) + Sum(Tail(sizes))

\* _transcribe_with_groq: a file over MAX_FILE_SIZE raises (and "" is returned),
\* one under 1024 bytes is skipped, anything else is sent.
GroqSends(size) == ~(size > MAX_FILE_SIZE) /\ ~(size < 1024)

\* a provider request issued through rate_limiter.execute_with_retry(...)
ViaLimiter(path) == [path |-> path, via |-> "execute_with_retry"]
\* a provider request issued by calling the provider client directly
Direct(path) == [path |-> path, via |-> "direct"]

\* _transcribe_with_groq (realtime-chunk endpoint, complete recording)
TranscribeWithGroq(size) ==
    /\ GroqSends(size)
    /\ streamSent' = streamSent \cup {size}
    /\ providerCalls' = providerCalls \cup {ViaLimiter("legacy chunk")}
    /\ UNCHANGED wsVars

\* _transcribe_with_groq_streaming: the size actually sent, 0 when nothing is
\* sent; a fragment over MAX_FILE_SIZE is sent only if its compressed copy fits.
StreamingPayload(size, compressed) ==
    IF size < 1024 THEN 0
    ELSE IF size > MAX_FILE_SIZE
         THEN IF compressed <= MAX_FILE_SIZE THEN compressed ELSE 0
         ELSE size

\* _transcribe_with_groq_streaming (realtime-stream endpoint); compressed is the
\* size of the file _compress_audio_for_streaming returns (the original's size
\* when the compression failed).
TranscribeStreaming(size, compressed) ==
    /\ size > MAX_FILE_SIZE \/ compressed = size
    /\ StreamingPayload(size, compressed) # 0
    /\ streamSent' = streamSent \cup {StreamingPayload(size, compressed)}
    /\ providerCalls' = providerCalls \cup {Direct("streaming chunk")}
    /\ UNCHANGED wsVars

\* _transcribe_live_chunk: only chunks under 10240 bytes are skipped.
LiveChunkSends(size) == ~(size < 10240)

\* _transcribe_live_chunk
TranscribeLiveChunk(size) ==
    /\ LiveChunkSends(size)
    /\ streamSent' = streamSent \cup {size}
    /\ providerCalls' = providerCalls \cup {ViaLimiter("live chunk")}
    /\ UNCHANGED wsVars

\* nothing saved yet
NoSave == [phase |-> "none", chunks |-> 0, arrived |-> 0, flushed |-> 0]

\* start_recording, lines 125-134: the session is registered with empty
\* buffers once the Transcription row is committed. (The constructor call at
\* line 103 passes source_type, which models.py does not declare; the model
\* takes the registration as given.)
StartRecording ==
    /\ ~active_sessions
    /\ arrived = 0
    /\ active_sessions' = TRUE
    /\ audio_buffer' = <<>>
    /\ transcript_chunks' = 0
    /\ saved' = NoSave
    /\ UNCHANGED <<conn, arrived, flushes, streamSent, providerCalls>>

\* recording_websocket, lines 358-377: a connection for an unknown session is
\* closed at once; otherwise the handler enters its message loop.
WsConnect(c) ==
    /\ conn[c] = "closed"
    /\ active_sessions
    /\ conn' = [conn EXCEPT ![c] = "receive"]
    /\ UNCHANGED <<active_sessions, audio_buffer, transcript_chunks, arrived, flushes,
                   saved, streamSent, providerCalls>>

\* recording_websocket, lines 395-400 and 457-458: a stop message or a
\* disconnect while waiting for a message ends the handler.
WsStop(c) ==
    /\ conn[c] = "receive"
    /\ conn' = [conn EXCEPT ![c] = "closed"]
    /\ UNCHANGED <<active_sessions, audio_buffer, transcript_chunks, arrived, flushes,
                   saved, streamSent, providerCalls>>

\* recording_websocket, lines 402-414: a binary frame is appended to the
\* buffer, then the handler awaits the acknowledgement it sends.
WsReceive(c, size) ==
    /\ conn[c] = "receive"
    /\ arrived < MaxArrived
    /\ arrived' = arrived + 1
    /\ audio_buffer' = Append(audio_buffer, [n |-> arrived + 1, size |-> size])
    /\ conn' = [conn EXCEPT ![c] = "acked"]
    /\ UNCHANGED <<active_sessions, transcript_chunks, flushes, saved, streamSent,
                   providerCalls>>

\* the arrival numbers of a batch
Numbers(batch) == [i \in DOMAIN batch |-> batch[i].n]

\* the mutant flushes only above FlushCount fragments
FlushDueAbove(buffer) == Len(buffer) > FlushCount

\* if len(session["audio_buffer"]) >= 5
FlushDue(buffer) == Len(buffer) >= FlushCount

\* the outcomes of a flush: text is returned and sent, no text is returned (a
\* provider failure is swallowed by transcribe_chunk, or silence), or sending
\* the transcript to the client raises.
FlushOutcomes == {"text", "empty", "send fails"}

\* recording_websocket, lines 416-455, with transcribe_buffer: once the buffer
\* holds FlushCount fragments it is copied and emptied, the copy is joined and
\* sent through transcribe_chunk; a transcript is stored after it was sent.
WsFlush(c, outcome) ==
    /\ conn[c] = "acked"
    /\ IF FlushDue(audio_buffer)
       THEN /\ audio_buffer' = <<>>
            /\ flushes' = Append(flushes, Numbers(audio_buffer))
            /\ streamSent' = streamSent \cup {Sum([i \in DOMAIN audio_buffer |->
                                                      audio_buffer[i].size])}
            /\ providerCalls' = providerCalls \cup {ViaLimiter("buffered flush")}
            /\ transcript_chunks' = IF outcome = "text" THEN transcript_chunks + 1
                                    ELSE transcript_chunks
            /\ conn' = [conn EXCEPT ![c] = IF outcome = "send fails" THEN "closed"
                                           ELSE "receive"]
       ELSE /\ outcome = "empty"
            /\ conn' = [conn EXCEPT ![c] = "receive"]
            /\ UNCHANGED <<audio_buffer, flushes, streamSent, providerCalls,
                           transcript_chunks>>
    /\ UNCHANGED <<active_sessions, arrived, saved>>

\* stop_recording, lines 204-221: the transcript chunks stored so far are joined
\* into the saved transcript; with none stored nothing is awaited and the
\* handler runs on to its commit and removes the session (261-265). The
\* buffered fragments are not looked at.
StopRecording ==
    /\ active_sessions
    /\ saved.phase = "none"
    /\ IF transcript_chunks = 0
         THEN /\ active_sessions' = FALSE
              /\ saved' = [phase |-> "done", chunks |-> 0, arrived |-> arrived,
                           flushed |-> Len(flushes)]
         ELSE /\ active_sessions' = active_sessions
              /\ saved' = [NoSave EXCEPT !.phase = "joined", !.chunks = transcript_chunks]
    /\ UNCHANGED <<audio_buffer, transcript_chunks, conn, arrived, flushes, streamSent,
                   providerCalls>>

\* stop_recording, lines 223-265: once generate_summary has returned or raised
\* the row is committed and the session is removed from active_sessions.
StopCommit ==
    /\ saved.phase = "joined"
    /\ active_sessions' = FALSE
    /\ saved' = [saved EXCEPT !.phase = "done", !.arrived = arrived,
                              !.flushed = Len(flushes)]
    /\ UNCHANGED <<audio_buffer, transcript_chunks, conn, arrived, flushes, streamSent,
                   providerCalls>>

StreamIdle ==
    /\ active_sessions = FALSE
    /\ audio_buffer = <<>>
    /\ transcript_chunks = 0
    /\ conn = [c \in ConnIds |-> "closed"]
    /\ arrived = 0
    /\ flushes = <<>>
    /\ saved = NoSave
    /\ streamSent = {}
    /\ providerCalls = {}

InitStream == StreamIdle

NextStream ==
    \/ \E size \in PayloadSizes : TranscribeWithGroq(size)
    \/ \E size \in PayloadSizes, c \in PayloadSizes \cup CompressedSizes :
           TranscribeStreaming(size, c)
    \/ \E size \in PayloadSizes : TranscribeLiveChunk(size)

NextRecording ==
    \/ StartRecording
    \/ \E c \in ConnIds : WsConnect(c)
    \/ \E c \in ConnIds : WsStop(c)
    \/ \E c \in ConnIds, size \in FragmentSizes : WsReceive(c, size)
    \/ \E c \in ConnIds, outcome \in FlushOutcomes : WsFlush(c, outcome)
    \/ StopRecording
    \/ StopCommit

(***************************************************************************)
(* Streaming sessions of the realtime-stream endpoint (routes/realtime.py)  *)
(* Transcript texts are sequences of characters.                           *)
(***************************************************************************)
RECURSIVE LStrip(_)
LStrip(s) == IF s # <<>> /\ Head(s) = " " THEN LStrip(Tail(s)) ELSE s

RECURSIVE RStrip(_)
RStrip(s) == IF s # <<>> /\ s[Len(s)] = " " THEN RStrip(SubSeq(s, 1, Len(s) - 1)) ELSE s

\* str.strip()
Strip(s) == RStrip(LStrip(s))

RECURSIVE CollapseSpaces(_)
\* re.sub(r'\s+', ' ', s)
CollapseSpaces(s) ==
    IF Len(s) < 2 THEN s
    ELSE IF s[1] = " " /\ s[2] = " " THEN CollapseSpaces(Tail(s))
         ELSE <<s[1]>> \o CollapseSpaces(Tail(s))

RECURSIVE SplitWords(_, _)
\* str.split(): cur is the word being read
SplitWords(s, cur) ==
    IF s = <<>> THEN (IF cur = <<>> THEN <<>> ELSE <<cur>>)
    ELSE IF Head(s) = " "
         THEN (IF cur = <<>> THEN <<>> ELSE <<cur>>) \o SplitWords(Tail(s), <<>>)
         ELSE SplitWords(Tail(s), Append(cur, Head(s)))

Words(s) == SplitWords(s, <<>>)

RECURSIVE JoinWords(_)
\* " ".join(words)
JoinWords(ws) ==
    IF ws = <<>> THEN <<>>
    ELSE IF Len(ws) = 1 THEN ws[1]
         ELSE ws[1] \o <<" ">> \o JoinWords(Tail(ws))

\* s[-n:]
LastChars(s, n) == IF Len(s) <= n THEN s ELSE SubSeq(s, Len(s) - n + 1, Len(s))

\* str.endswith(('.', '!', '?'))
EndsWithTerminal(s) == s # <<>> /\ s[Len(s)] \in {".", "!", "?"}

\* the false_positives list of _clean_streaming_transcription
FalsePositives ==
    {<<"t", "h", "a", "n", "k", " ", "y", "o", "u">>,
     <<"t", "h", "a", "n", "k", "s">>,
     <<"b", "y", "e">>,
     <<"h", "e", "l", "l", "o">>,
     <<"h", "i">>,
     <<"u", "m">>,
     <<"u", "h">>,
     <<"a", "h">>,
     <<"y", "o", "u", " ", "k", "n", "o", "w">>,
     <<"l", "i", "k", "e">>,
     <<"s", "o">>,
     <<"w", "e", "l", "l">>,
     <<"y", "e", "a", "h">>,
     <<"y", "e", "s">>,
     <<"n", "o">>,
     <<"o", "k", "a", "y">>}

RECURSIVE FilterRepeats(_, _, _)
\* the loop over words: a word equal (ignoring case) to prev_word is kept once
FilterRepeats(ws, prev_word, repeat_count) ==
    IF ws = <<>> THEN <<>>
    ELSE IF Lower(Head(ws)) = Lower(prev_word)
         THEN (IF repeat_count + 1 < 2 THEN <<Head(ws)>> ELSE <<>>)
              \o FilterRepeats(Tail(ws), prev_word, repeat_count + 1)
         ELSE <<Head(ws)>> \o FilterRepeats(Tail(ws), Head(ws), 0)

MinCleanLength == 3
MinContextLength == 10
RecentContextLength == 50

\* `context and len(context) > 10 and cleaned.lower() in context[-50:].lower()`
RecentlyTranscribed(cleaned, context) ==
    /\ Len(context) > MinContextLength
    /\ Contains(Lower(cleaned), Lower(LastChars(context, RecentContextLength)))

\* _clean_streaming_transcription(transcription, context, chunk_number)
clean_streaming_transcription(transcription, context) ==
    LET cleaned == CollapseSpaces(Strip(transcription))
        words == Words(cleaned)
    IN  IF transcription = <<>> THEN <<>>
        ELSE IF Len(cleaned) < MinCleanLength THEN <<>>
        ELSE IF Strip(Lower(cleaned)) \in FalsePositives THEN <<>>
        ELSE IF RecentlyTranscribed(cleaned, context) THEN <<>>
        ELSE IF Len(words) > 2 THEN JoinWords(FilterRepeats(words, <<>>, 0))
        ELSE cleaned

\* texts the provider returns for a fragment (response.strip() is applied by the caller)
TextShort == <<"a", " ", "b", " ", "c", " ", "d", ".">>
TextSentence == <<"t", "e", "n", " ", "m", "e", "n", " ", "e", "a", "t", " ", "h", "a", "m", ".">>
TextSentenceUpper == <<"T", "E", "N", " ", "M", "E", "N", " ", "E", "A", "T", " ", "H", "A", "M", ".">>
TextStutter == <<" ", "s", "o", " ", "s", "o", " ", "s", "o", " ", " ", "o", "n", " ">>
ProviderTextsStream == {TextShort, TextSentence, TextSentenceUpper, TextStutter}

\* bounds
MaxSessions == 2
MaxFragments == 5
MaxStreamTime == 3000

InactivityTimeout == 1800
FinalEvery == 4
MinFinalWords == 3

\* amounts of time that pass between two events
StreamTickSteps == {600, 1800, 2400}
\* await asyncio.sleep(600) in periodic_cleanup
ReaperInterval == 600
ReqSlots == {1, 2}
CtxIds == 1..MaxSessions
Tiers == {"free", "business"}
\* the provider call raised: _transcribe_with_groq_streaming returns ""
ProviderFails == <<"#">>

\* history fields: dispatched, the highest submission position dispatched so far;
\* failed, whether one of the context's flushes failed
NoCtx == [accumulated_text |-> <<>>, last_final_text |-> <<>>,
          chunk_count |-> 0, last_update |-> 0, dispatched |-> 0, failed |-> FALSE]
NoRequest == [pc |-> "idle", ctx |-> 0, pos |-> 0]
NoFlush == [ctx |-> 0, clean |-> <<>>, number |-> 0, pos |-> 0, earlier |-> 0,
            merged |-> FALSE, before |-> <<>>, failed |-> FALSE]
NoEvent == [status |-> "none", text |-> <<>>, is_final |-> FALSE, flush |-> NoFlush]

\* attributes of the User ORM class (models.py)
UserColumns ==
    {"id", "email", "password_hash", "first_name", "last_name", "subscription_tier",
     "is_active", "is_verified", "monthly_transcription_count", "created_at", "updated_at",
     "transcriptions", "knowledge_queries"}

\* check_usage_limits(user, db): business returns at once; for the free and pro
\* tiers user.monthly_usage is read, which raises AttributeError when the class
\* has no such attribute.
UsageCheckRaises(t) == t # "business" /\ "monthly_usage" \notin UserColumns

\* objects no longer referenced are collected
Collect(objs, reg, reqs) ==
    [id \in CtxIds |->
        IF id = reg \/ \E r \in ReqSlots : reqs[r].ctx = id THEN objs[id] ELSE NoCtx]

\* a response that carries no flush
Response(status) == [NoEvent EXCEPT !.status = status]

\* realtime.py:135-137
IsFinal(clean, number) ==
    /\ EndsWithTerminal(clean)
    /\ Len(Words(clean)) > MinFinalWords
    /\ number % FinalEvery = 0

\* the mutant failure path returns words
StreamingFailureResultWords == TextShort

\* _transcribe_with_groq_streaming, `except Exception: return ""`
StreamingFailureResult == <<>>

\* the mutant replaces the transcript by the new text
MergeTextReplace(accumulated, clean) == clean

\* context['accumulated_text'] + ' ' + clean_transcription
MergeText(accumulated, clean) == accumulated \o <<" ">> \o clean

\* realtime_transcription_stream, lines 78-98: usage check, the context is created
\* if absent, chunk_count and last_update are updated; then the upload is read.
StreamBegin(r) ==
    /\ rq[r].pc = "idle"
    /\ IF UsageCheckRaises(tier)
       THEN /\ event' = Response("error")
            /\ event' # event
            /\ UNCHANGED <<registry, ctxs, created, begun, rq, stopped>>
       ELSE LET id == IF registry # 0 THEN registry ELSE created + 1
                old == IF registry # 0 THEN ctxs[id] ELSE NoCtx
                new == [old EXCEPT !.chunk_count = @ + 1, !.last_update = stime]
            IN  /\ registry # 0 \/ created < MaxSessions
                /\ begun < MaxFragments
                /\ begun' = begun + 1
                /\ registry' = id
                /\ created' = IF registry # 0 THEN created ELSE created + 1
                /\ rq' = [rq EXCEPT ![r] = [pc |-> "reading", ctx |-> id, pos |-> new.chunk_count]]
                /\ ctxs' = [ctxs EXCEPT ![id] = new]
                /\ stopped' = FALSE
                /\ UNCHANGED event
    /\ UNCHANGED <<stime, tier>>

\* lines 100-115: the upload has been read; a fragment under 2048 bytes is dropped.
StreamRead(r, small) ==
    /\ rq[r].pc = "reading"
    /\ IF small
       THEN /\ rq' = [rq EXCEPT ![r] = NoRequest]
            /\ ctxs' = Collect(ctxs, registry, rq')
            /\ event' = Response("success")
       ELSE /\ rq' = [rq EXCEPT ![r].pc = "converting"]
            /\ UNCHANGED <<ctxs, event>>
    /\ UNCHANGED <<stime, tier, registry, created, begun, stopped>>

\* lines 117-181: _convert_to_wav returns or raises; on return the fragment is
\* dispatched with the context's current text and chunk_count, the result is
\* cleaned, judged final or not, merged when final, filtered and returned.
StreamTranscribe(r, converted, resp) ==
    /\ rq[r].pc = "converting"
    /\ rq' = [rq EXCEPT ![r] = NoRequest]
    /\ \E id \in {rq[r].ctx} : \E context \in {ctxs[id]} :
       \E clean \in {IF resp = ProviderFails THEN Strip(StreamingFailureResult)
                     ELSE Strip(clean_streaming_transcription(Strip(resp),
                                                               context.accumulated_text))} :
       \E final \in {clean # <<>> /\ IsFinal(clean, context.chunk_count)} :
       \E after \in {IF final
                     THEN [context EXCEPT
                              !.last_final_text = MergeText(context.accumulated_text, clean),
                              !.accumulated_text = MergeText(context.accumulated_text, clean)]
                     ELSE context} :
       \E repetitive \in {clean # <<>> /\ Contains(Lower(clean), Lower(after.accumulated_text))} :
          IF ~converted
          THEN /\ resp = ProviderFails
               /\ ctxs' = Collect([ctxs EXCEPT ![id].failed = TRUE], registry, rq')
               /\ event' = [Response("error") EXCEPT
                               !.flush = [NoFlush EXCEPT !.ctx = id, !.failed = TRUE,
                                             !.before = context.accumulated_text]]
          ELSE /\ ctxs' = Collect([ctxs EXCEPT ![id] =
                                      [after EXCEPT
                                          !.dispatched = IF rq[r].pos > @ THEN rq[r].pos ELSE @,
                                          !.failed = @ \/ resp = ProviderFails]],
                                  registry, rq')
               /\ event' = [status |-> "success",
                            text |-> IF repetitive THEN <<>> ELSE clean,
                            is_final |-> IF repetitive THEN FALSE ELSE final,
                            flush |-> [ctx |-> id, clean |-> clean,
                                       number |-> context.chunk_count, pos |-> rq[r].pos,
                                       earlier |-> context.dispatched, merged |-> final,
                                       before |-> context.accumulated_text,
                                       failed |-> resp = ProviderFails]]
    /\ UNCHANGED <<stime, tier, registry, created, begun, stopped>>

\* clear_realtime_session: the context is deleted if present
ClearSession ==
    /\ registry' = 0
    /\ ctxs' = Collect(ctxs, 0, rq)
    /\ stopped' = TRUE
    /\ event' = Response("cleared")
    /\ UNCHANGED <<stime, tier, created, begun, rq>>

\* complete_realtime_transcription: usage check, then the context is deleted, then
\* the recording is processed (processed: whether that succeeded).
CompleteRecording(processed) ==
    /\ IF UsageCheckRaises(tier)
       THEN /\ ~processed
            /\ UNCHANGED <<registry, ctxs>>
       ELSE /\ registry' = 0
            /\ ctxs' = Collect(ctxs, 0, rq)
    /\ stopped' = TRUE
    /\ event' = Response(IF processed THEN "completed" ELSE "failed")
    /\ UNCHANGED <<stime, tier, created, begun, rq>>

\* the mutant also expires a context exactly at the timeout
ExpiredAtTimeout(now, context) == now - context.last_update >= InactivityTimeout

\* current_time - context.get('last_update', 0) > 1800
Expired(now, context) == now - context.last_update > InactivityTimeout

\* cleanup_old_contexts
Reap ==
    /\ registry # 0
    /\ registry' = IF Expired(stime, ctxs[registry]) THEN 0 ELSE registry
    /\ ctxs' = Collect(ctxs, registry', rq)
    /\ event' = Response("reaped")
    /\ UNCHANGED <<stime, tier, created, begun, rq, stopped>>

\* time passes
TickStream(d) ==
    /\ stime + d <= MaxStreamTime
    /\ stime' = stime + d
    /\ UNCHANGED <<tier, registry, ctxs, created, begun, rq, event, stopped>>

\* update_subscription (routes/users.py): the user's tier changes
UpdateSubscription(t) ==
    /\ t # tier
    /\ tier' = t
    /\ UNCHANGED <<stime, registry, ctxs, created, begun, rq, event, stopped>>

RealtimeIdle ==
    /\ stime = 0
    /\ tier = "business"
    /\ registry = 0
    /\ ctxs = [id \in CtxIds |-> NoCtx]
    /\ created = 0
    /\ begun = 0
    /\ rq = [r \in ReqSlots |-> NoRequest]
    /\ event = NoEvent
    /\ stopped = FALSE

\* fragments pushed to one session, two requests at a time
NextRealtime ==
    \/ \E r \in ReqSlots : StreamBegin(r)
    \/ \E r \in ReqSlots, small \in BOOLEAN : StreamRead(r, small)
    \/ \E r \in ReqSlots, converted \in BOOLEAN,
          resp \in ProviderTextsStream \cup {ProviderFails} : StreamTranscribe(r, converted, resp)
    \/ ClearSession

\* the life cycle of the session: noise fragments, stops, the reaper, time
NextSessions ==
    \/ StreamBegin(1)
    \/ StreamRead(1, TRUE)
    \/ ClearSession
    \/ \E processed \in BOOLEAN : CompleteRecording(processed)
    \/ Reap
    \/ \E d \in StreamTickSteps : TickStream(d)
    \/ \E t \in Tiers : UpdateSubscription(t)

(***************************************************************************)
(* The routes that create jobs                                             *)
(***************************************************************************)
MaxRecords == 3
UploadSlots == {1, 2, 3}
TerminalStatuses == {"completed", "failed"}
NoResponse == [code |-> 0, record |-> 0]

\* increment_usage(user, db): user.monthly_usage += 1 reads the attribute first,
\* which raises AttributeError when the class has no such attribute.
increment_usage_raises == "monthly_usage" \notin UserColumns

\* the table is followed up to MaxRecords rows
RoomForRecord == Len(db_transcriptions) < MaxRecords

\* the common tail of the creating handlers: Transcription(status="pending"),
\* db.add, db.commit, db.refresh; increment_usage; (the file route: download_file);
\* background_tasks.add_task; the 201 response. An exception after the commit
\* is answered with db.rollback() and a 500; the committed row stays.
CreateRecordAndSchedule(r, fetched) ==
    LET id == Len(db_transcriptions) + 1 IN
    /\ db_transcriptions' = Append(db_transcriptions, "pending")
    /\ IF increment_usage_raises \/ ~fetched
         THEN /\ background_tasks' = background_tasks
              /\ responses' = [responses EXCEPT ![r] = [code |-> 500, record |-> id]]
         ELSE /\ background_tasks' = background_tasks \cup {id}
              /\ responses' = [responses EXCEPT ![r] = [code |-> 201, record |-> id]]

\* upload_file_transcription up to its first await: check_usage_limits,
\* validate_file, the title, then file_service.upload_file
upload_file_transcription(r, t) ==
    /\ handler[r] = "idle"
    /\ IF UsageCheckRaises(t)
         THEN /\ responses' = [responses EXCEPT ![r] = [code |-> 500, record |-> 0]]
              /\ handler' = handler
         ELSE /\ responses' = [responses EXCEPT ![r] = NoResponse]
              /\ handler' = [handler EXCEPT ![r] = "uploading"]
    /\ UNCHANGED <<db_transcriptions, background_tasks>>

\* upload_file_transcription from the return of upload_file to its response
UploadStored(r, stored, fetched) ==
    /\ handler[r] = "uploading"
    /\ stored => RoomForRecord
    /\ handler' = [handler EXCEPT ![r] = "idle"]
    /\ IF stored
         THEN CreateRecordAndSchedule(r, fetched)
         ELSE /\ responses' = [responses EXCEPT ![r] = [code |-> 500, record |-> 0]]
              /\ UNCHANGED <<db_transcriptions, background_tasks>>

\* create_text_transcription: no await between the check and the response
create_text_transcription(r, t) ==
    /\ handler[r] = "idle"
    /\ UsageCheckRaises(t) \/ RoomForRecord
    /\ handler' = handler
    /\ IF UsageCheckRaises(t)
         THEN /\ responses' = [responses EXCEPT ![r] = [code |-> 500, record |-> 0]]
              /\ UNCHANGED <<db_transcriptions, background_tasks>>
         ELSE CreateRecordAndSchedule(r, TRUE)

UploadIdle ==
    /\ db_transcriptions = <<>>
    /\ background_tasks = {}
    /\ handler = [r \in UploadSlots |-> "idle"]
    /\ responses = [r \in UploadSlots |-> NoResponse]

\* requests to the creating routes; a task handed to add_task is run by
\* process_transcription_background, modelled with the job orchestrator
NextUpload ==
    \/ \E r \in UploadSlots, t \in Tiers : upload_file_transcription(r, t)
    \/ \E r \in UploadSlots, stored \in BOOLEAN, fetched \in BOOLEAN : UploadStored(r, stored, fetched)
    \/ \E r \in UploadSlots, t \in Tiers : create_text_transcription(r, t)

\* the session as the routes serve it: periodic_cleanup is created only by
\* start_cleanup_task, which nothing calls, so no run of cleanup_old_contexts
\* is ever scheduled
NextRoutes ==
    \/ StreamBegin(1)
    \/ StreamRead(1, TRUE)
    \/ ClearSession
    \/ \E processed \in BOOLEAN : CompleteRecording(processed)
    \/ \E d \in StreamTickSteps : TickStream(d)
    \/ \E t \in Tiers : UpdateSubscription(t)

(***************************************************************************)
(* Claims about the RateLimiter                                            *)
(***************************************************************************)

\* C1: on an enabled limiter the number of admitted requests whose timestamps
\* lie in the trailing 60-second window [clock - 60, clock] never exceeds
\* requests_per_minute, under every interleaving of the callers.
C1_WindowCeiling ==
    enabled => Len(recent) <= requests_per_minute

\* the window is full and the next caller is held back inside acquire()
C1_Witness ==
    /\ enabled
    /\ Len(recent) = requests_per_minute
    /\ \E c \in Callers : pc[c] = "sleeping" /\ lock = c

\* C2: when every invocation of the operation raises a throttling error,
\* execute_with_retry invokes it exactly retry_attempts times and then
\* propagates the error of the last invocation.
C2_ExactlyRetryAttempts ==
    \A c \in Callers :
        /\ allThrottled[c] => calls[c] <= retry_attempts
        /\ (pc[c] = "raised" /\ allThrottled[c]) =>
              (calls[c] = retry_attempts /\ raised[c] = opLast[c])

\* a call whose three invocations were all throttled has ended
C2_Witness ==
    \E c \in Callers :
        /\ pc[c] = "raised"
        /\ allThrottled[c]
        /\ calls[c] = retry_attempts
        /\ raised[c] \in ThrottlingMsgs

\* C3: once the operation has raised a non-throttling error the call has ended
\* with that error: no later invocation, no backoff sleep and no further
\* acquire (the invocations, acquires and backoffs are those made up to the
\* failing invocation; a first-invocation failure means one invocation, one
\* acquire and no backoff).
C3_NonThrottlingPropagates ==
    \A c \in Callers :
        nonThrottleAt[c] > 0 =>
            /\ pc[c] = "raised"
            /\ raised[c] = opLast[c]
            /\ raised[c] \notin ThrottlingMsgs
            /\ calls[c] = nonThrottleAt[c]
            /\ acquires[c] = nonThrottleAt[c]
            /\ backoffs[c] = nonThrottleAt[c] - 1

\* the first invocation raised a non-throttling error
C3_Witness ==
    \E c \in Callers :
        /\ nonThrottleAt[c] = 1
        /\ pc[c] = "raised"
        /\ calls[c] = 1
        /\ backoffs[c] = 0

(***************************************************************************)
(* Claims about the JobOrchestrator                                        *)
(***************************************************************************)

\* C4: once a job's status is completed or failed, no later step changes it
\* (terminal states are final).
C4_TerminalStatusFinal ==
    [][job.status \in {"completed", "failed"} => job'.status = job.status]_vars

\* C5: a job with add_to_knowledge_base enabled whose transcription succeeded
\* ends in status completed with its transcript, whatever the knowledge-base
\* store call returned.
C5_StoreFailureKeepsCompleted ==
    (jpc = "done" /\ job.add_to_knowledge_base /\ transcribed /\ propagated = NoText)
        => (job.status = "completed" /\ job.transcription_text # NoText)

MarkerNumbers(text) ==
    LET ms == SelectSeq(text, LAMBDA tok : tok.t = "marker")
    IN  [i \in 1..Len(ms) |-> ms[i].n]

OneTo(n) == [i \in 1..n |-> i]

\* C7: with K >= 2 segments the call returns (never raises) after every segment
\* has been attempted; segment i of the list is represented at position i by
\* its marker followed by its text or, when its transcription failed, by the
\* placeholder carrying the reason; segments keep their original order.
C7_SegmentFailureContained ==
    (cpc \in {"returned", "raised"} /\ Len(chunks) >= 2) =>
        /\ cpc = "returned"
        /\ Len(segOutcome) = Len(chunks)
        /\ Len(result) = 3 * Len(chunks) - 1
        /\ \A i \in 1..Len(chunks) :
              /\ segOutcome[i].slice = chunks[i].slice
              /\ result[3 * i - 2] = Marker(i)
              /\ result[3 * i - 1] = IF segOutcome[i].ok
                                     THEN Word(chunks[i].slice)
                                     ELSE FailedNote(segOutcome[i].msg)
              /\ i < Len(chunks) => result[3 * i] = BlankLine
        /\ \A i, j \in 1..Len(chunks) : i < j => chunks[i].slice < chunks[j].slice

\* three segments, the second one failed, the others were transcribed
C7_Witness ==
    /\ cpc = "returned"
    /\ Len(chunks) = 3
    /\ Len(segOutcome) = 3
    /\ segOutcome[1].ok /\ ~segOutcome[2].ok /\ segOutcome[3].ok
    /\ result[5] = FailedNote(Wrap(MsgTimeout))

\* C8 as stated: for oversized media longer than one chunk the transcript
\* carries exactly ceil(D / c) markers 1, 2, ..., one per time slice.
C8_ExactlyCeilMarkers ==
    (cpc = "returned" /\ file_size > MAX_FILE_SIZE /\ duration > CHUNK_SIZE_MINUTES * 60) =>
        MarkerNumbers(result) = OneTo(CeilDiv(duration, CHUNK_SIZE_MINUTES * 60))

\* C8 as amended: for oversized media the transcript carries one marker per
\* chunk that was cut and kept, numbered 1..K in increasing order, when K >= 2
\* chunks were kept, and no marker otherwise; K is at most ceil(D / c) and
\* equals it when every slice was cut and kept; the kept chunks are distinct
\* time slices in increasing order.
C8_MarkersPerKeptChunk ==
    (cpc = "returned" /\ file_size > MAX_FILE_SIZE) =>
        LET K == Len(chunks)
            n == CeilDiv(duration, CHUNK_SIZE_MINUTES * 60)
        IN  /\ MarkerNumbers(result) = IF K >= 2 THEN OneTo(K) ELSE <<>>
            /\ K >= 2 => K <= n
            /\ K >= 2 => \A i \in 1..K : chunks[i].slice \in 1..n
            /\ \A i, j \in 1..K : i < j => chunks[i].slice < chunks[j].slice
            /\ (duration > CHUNK_SIZE_MINUTES * 60 /\ dropped = {} /\ chunks[1].slice # 0)
                  => K = n

\* a 20-minute file cut into three kept 8-minute chunks
C8_Witness ==
    /\ cpc = "returned"
    /\ duration = 1200
    /\ dropped = {}
    /\ MarkerNumbers(result) = <<1, 2, 3>>

\* C9: a file of at most MAX_FILE_SIZE is never split, is sent to the provider
\* as it is, in exactly one request when no request was throttled, and the
\* returned transcript is exactly the provider's text, without markers.
C9_SmallFileDirect ==
    (cpc \in {"returned", "raised"} /\ file_size <= MAX_FILE_SIZE) =>
        /\ chunks = <<>> /\ num_chunks = 0 /\ slice_i = 0 /\ files = {}
        /\ sent = {file_size}
        /\ requests <= retry_attempts
        /\ throttles = 0 => requests = 1
        /\ cpc = "returned" => (result = ProviderText(0) /\ MarkerNumbers(result) = <<>>)

\* a file of exactly MAX_FILE_SIZE, 20 minutes long, transcribed in one request
C9_Witness ==
    /\ cpc = "returned"
    /\ file_size = MAX_FILE_SIZE
    /\ duration = 1200
    /\ requests = 1
    /\ result = ProviderText(0)

\* C10: no payload larger than MAX_FILE_SIZE is ever sent to the provider, on
\* any call path.
C10_NoOversizedPayload ==
    \A size \in sent \cup streamSent : size <= MAX_FILE_SIZE

\* C11: every request to the provider is issued from inside
\* RateLimiter.execute_with_retry, hence after an acquire() that recorded it.
C11_AllProviderCallsLimited ==
    \A call \in providerCalls : call.via = "execute_with_retry"

\* C12: on an enabled limiter every acquire() call eventually returns as time
\* advances, also for callers queued on the lock while another caller sleeps;
\* a caller only ever waits while one of the windows is full.
C12_AcquireEventuallyReturns ==
    /\ \A c \in Callers :
          (pc[c] \in {"acquire", "sleeping"}) ~> (pc[c] \notin {"acquire", "sleeping"})
    /\ [](\A c \in Callers : pc[c] = "sleeping" =>
              \/ Len(minute_requests) >= requests_per_minute
              \/ Len(day_requests) >= requests_per_day)

\* every caller is done, and the last admission happened only after the first
\* ones had left the minute window
C12_Witness ==
    /\ enabled
    /\ \A c \in Callers : pc[c] \in {"returned", "raised"}
    /\ \E c \in Callers : mode[c] = "acquire" /\ acquires[c] = 1
    /\ minute_requests # <<>>
    /\ minute_requests[Len(minute_requests)] > MinuteWindow
    /\ Len(day_requests) >= requests_per_minute + 1

(***************************************************************************)
(* Claims about the streaming sessions                                     *)
(***************************************************************************)
IsPrefix(p, t) == Len(p) <= Len(t) /\ SubSeq(t, 1, Len(p)) = p

\* C13: a flush result that is already present (ignoring case) in the recent
\* tail of the accumulated transcript is never merged into it, so the same
\* text pushed twice in succession does not occur twice in the transcript.
C13_NoDuplicateMerge ==
    event.flush.merged =>
        ~Contains(Lower(event.flush.clean),
                  Lower(LastChars(event.flush.before, RecentContextLength)))

\* C14: a run of the reaper removes the session exactly when its last activity
\* is more than the inactivity timeout in the past; a session within the
\* timeout stays in the registry with its state unchanged.
C14_ReaperRemovesExactlyExpired ==
    [][Reap =>
          IF stime - ctxs[registry].last_update > InactivityTimeout
          THEN registry' = 0
          ELSE /\ registry' = registry
               /\ ctxs'[registry] = ctxs[registry]
               /\ stime' - ctxs'[registry'].last_update <= InactivityTimeout]_vars

\* the reaper ran on a session idle for longer than the timeout and removed it
C14_Witness ==
    /\ event.status = "reaped"
    /\ registry = 0
    /\ stime > InactivityTimeout

\* the fragments of all flushes so far, in flush order
RECURSIVE Flatten(_)
Flatten(batches) == IF batches = <<>> THEN <<>> ELSE Head(batches) \o Flatten(Tail(batches))

C16_FlushFailureContained ==
    [][\A r \in ReqSlots :
          (rq[r].pc = "converting" /\ rq'[r].pc = "idle" /\ event'.flush.failed) =>
              /\ event'.text = <<>>
              /\ ~event'.is_final
              /\ registry' = registry
              /\ rq[r].ctx = registry =>
                    /\ ctxs'[registry].accumulated_text = ctxs[registry].accumulated_text
                    /\ ctxs'[registry].last_final_text = ctxs[registry].last_final_text
                    /\ ctxs'[registry].chunk_count = ctxs[registry].chunk_count]_vars

\* after a failed flush the same session transcribed a later fragment
C16_Witness ==
    /\ event.status = "success"
    /\ event.text # <<>>
    /\ event.flush.ctx = registry
    /\ registry # 0
    /\ ctxs[registry].failed

\* C17: fragments of a session are dispatched to the provider in submission
\* order, each with the fragment number of its submission position.
C17_DispatchInSubmissionOrder ==
    event.flush.pos # 0 =>
        /\ event.flush.number = event.flush.pos
        /\ event.flush.earlier < event.flush.pos

\* C18: the last finalized transcript is always a prefix of the accumulated
\* one, and the accumulated transcript of a session changes only in a flush
\* judged final, by appending a space and that flush's cleaned text.
C18_MergeOnlyFinalByAppend ==
    /\ [](\A id \in CtxIds :
              IsPrefix(ctxs[id].last_final_text, ctxs[id].accumulated_text))
    /\ [][\A id \in CtxIds :
             (/\ ctxs[id] # NoCtx
              /\ ctxs'[id] # NoCtx
              /\ \/ ctxs'[id].accumulated_text # ctxs[id].accumulated_text
                 \/ ctxs'[id].last_final_text # ctxs[id].last_final_text) =>
                 /\ event'.flush.ctx = id
                 /\ event'.flush.merged
                 /\ event'.flush.clean # <<>>
                 /\ ctxs'[id].accumulated_text =
                        ctxs[id].accumulated_text \o <<" ">> \o event'.flush.clean
                 /\ ctxs'[id].last_final_text = ctxs'[id].accumulated_text]_vars

\* a final flush was merged into a transcript that already held a final text
C18_Witness ==
    /\ event.flush.merged
    /\ event.flush.before # <<>>
    /\ registry # 0
    /\ Len(ctxs[registry].accumulated_text) > Len(event.flush.before)

\* C19: a flush whose cleaned text ends in '.', '!' or '?', has more than 3
\* words and falls on a fragment count that is a multiple of 4 is returned with
\* that text and is_final true; any other returned text has is_final false.
C19_FinalFlushEmittedFinal ==
    event.flush.pos # 0 =>
        LET clean == event.flush.clean
            qualifies == /\ clean # <<>>
                         /\ clean[Len(clean)] \in {".", "!", "?"}
                         /\ Len(Words(clean)) > 3
                         /\ event.flush.number % 4 = 0
        IN  /\ qualifies => (event.text = clean /\ event.is_final)
            /\ (event.text # <<>> /\ ~qualifies) => ~event.is_final

\* C20: after an explicit stop of the session (clear-session or
\* realtime-complete), and until a new fragment arrives, the session's key is
\* absent from the registry, also when a step of the stop handler fails.
C20_StoppedKeyAbsent == stopped => registry = 0

(***************************************************************************)
(* Further claims about the chunked transcriber                            *)
(***************************************************************************)
\* C26: in a chunked transcript every kept slice has an entry, and the marker
\* [Segment N] of an entry carries the ordinal of the time slice the entry was
\* transcribed from.
C26_MarkerIsSliceOrdinal ==
    (cpc = "returned" /\ origin = "loop") =>
        /\ \A j \in 1..num_chunks :
              j \notin dropped => \E p \in DOMAIN segOutcome : segOutcome[p].slice = j
        /\ Len(transcriptions) = Len(segOutcome)
        /\ \A p \in DOMAIN transcriptions :
              /\ transcriptions[p][1].t = "marker"
              /\ transcriptions[p][1].n = segOutcome[p].slice

\* C27: when _transcribe_with_groq_chunked has returned or raised, none of the
\* temporary files created during the call exists any more.
C27_NoTemporaryFileLeft ==
    cpc \in {"returned", "raised"} => files = {}

(***************************************************************************)
(* Further claims about the job orchestrator                               *)
(***************************************************************************)
\* the position of a stage in the fixed order
StageRank(name) ==
    CASE name = "processing" -> 1
      [] name = "transcription" -> 2
      [] name = "summary" -> 3
      [] name = "store" -> 4
      [] name = "completed" -> 5

\* C24: the stages of a job run in the order processing, transcription,
\* summary, store, completed; the store runs only after the transcript exists
\* and is passed the job's final transcript and the summary produced for it.
C24_StagesInOrder ==
    /\ \A i, k \in DOMAIN stageLog :
          i < k => StageRank(stageLog[i].stage) < StageRank(stageLog[k].stage)
    /\ stageLog # <<>> => stageLog[1].stage = "processing"
    /\ job.status = "completed" =>
          (stageLog # <<>> /\ stageLog[Len(stageLog)].stage = "completed")
    /\ \A k \in DOMAIN stageLog :
          stageLog[k].stage = "store" =>
              /\ job.kind = "text" \/ \E i \in 1..(k - 1) : stageLog[i].stage = "transcription"
              /\ stageLog[k].text = job.transcription_text
              /\ stageLog[k].text # NoText
              /\ stageLog[k].summary = job.summary_text
              /\ \A i \in 1..(k - 1) :
                    stageLog[i].stage = "summary" => stageLog[k].summary = stageLog[i].summary
              /\ job.generate_summary => \E i \in 1..(k - 1) : stageLog[i].stage = "summary"

\* a file job ran all five stages and the store received the produced summary
C24_Witness ==
    /\ job.kind = "file"
    /\ Len(stageLog) = 5
    /\ stageLog[4].stage = "store"
    /\ stageLog[4].summary = SummaryText
    /\ job.status = "completed"

(***************************************************************************)
(* Further claims about the RateLimiter                                    *)
(***************************************************************************)
\* the caller ran a pass of acquire()'s locked body in this step
LockedPass(c) ==
    /\ enabled
    /\ pc[c] \in {"acquire", "sleeping"}
    /\ pc'[c] # pc[c]
    /\ lock \in {0, c}

\* C21: the minute and day windows change only in a step of a caller that
\* holds the limiter's lock.
C21_WindowsChangeUnderLock ==
    [][(minute_requests' # minute_requests \/ day_requests' # day_requests) =>
          \E c \in Callers : LockedPass(c)]_vars

\* C23: acquire() admits only when both pruned windows are strictly below
\* their ceilings and then appends the same timestamp to both in that step; so
\* no more than requests_per_day admissions lie within any trailing 86400 s and
\* every minute-window entry is also a day-window entry.
C23_AtomicAdmission ==
    /\ [](enabled =>
            /\ Len(SelectSeq(admitted, LAMBDA t : t >= clock - DayWindow)) <= requests_per_day
            /\ \A i \in DOMAIN minute_requests :
                  \E j \in DOMAIN day_requests : day_requests[j] = minute_requests[i])
    /\ [][\A c \in Callers :
             (enabled /\ acquires'[c] = acquires[c] + 1) =>
                 LET mq == SelectSeq(minute_requests, LAMBDA t : t >= clock - MinuteWindow)
                     dq == SelectSeq(day_requests, LAMBDA t : t >= clock - DayWindow)
                 IN  /\ Len(mq) < requests_per_minute
                     /\ Len(dq) < requests_per_day
                     /\ minute_requests' = Append(mq, clock)
                     /\ day_requests' = Append(dq, clock)]_vars

\* the day window is full while the minute window has room again, and a
\* caller is held back
C23_Witness ==
    /\ enabled
    /\ Len(day_requests) = requests_per_day
    /\ Len(SelectSeq(admitted, LAMBDA t : t >= clock - DayWindow)) = requests_per_day
    /\ Len(SelectSeq(minute_requests, LAMBDA t : t >= clock - MinuteWindow)) < requests_per_minute
    /\ \E c \in Callers : pc[c] = "sleeping"

\* C25 as stated: at all times neither window holds an entry older than its
\* window length.
C25_NeverHoldsExpired ==
    /\ \A i \in DOMAIN minute_requests : minute_requests[i] >= clock - MinuteWindow
    /\ \A i \in DOMAIN day_requests : day_requests[i] >= clock - DayWindow

\* C25: both windows are always ordered by time, and right after a step that
\* runs _cleanup_old_requests(now) (a pass of acquire() or get_stats()) every
\* remaining entry t satisfies t >= now - window.
C25_SortedAndFreshAfterCleanup ==
    /\ [](/\ \A i, j \in DOMAIN minute_requests :
                i < j => minute_requests[i] <= minute_requests[j]
          /\ \A i, j \in DOMAIN day_requests :
                i < j => day_requests[i] <= day_requests[j])
    /\ [][((\E c \in Callers : LockedPass(c))
             \/ minute_requests' # minute_requests
             \/ day_requests' # day_requests) =>
            /\ \A i \in DOMAIN minute_requests' : minute_requests'[i] >= clock - MinuteWindow
            /\ \A i \in DOMAIN day_requests' : day_requests'[i] >= clock - DayWindow]_vars

\* a cleanup has just dropped an expired entry from a window that is not empty
C25_Witness ==
    /\ enabled
    /\ Len(admitted) > Len(day_requests)
    /\ day_requests # <<>>
    /\ C25_NeverHoldsExpired

\* C29: every invocation of the operation by execute_with_retry follows an
\* acquire() of its own that recorded the current time in both windows; a call
\* that made k attempts recorded k timestamps, and an entry leaves a window
\* only when it has expired.
C29_SlotPerAttempt ==
    /\ [](\A c \in Callers :
             mode[c] = "execute" =>
                 /\ pc[c] = "call" => acquires[c] = calls[c] + 1
                 /\ pc[c] \in {"backoff", "raised", "returned"} => acquires[c] = calls[c])
    /\ [][\A c \in Callers :
             (enabled /\ pc[c] # "call" /\ pc'[c] = "call") =>
                 /\ minute_requests' # <<>> /\ minute_requests'[Len(minute_requests')] = clock
                 /\ day_requests' # <<>> /\ day_requests'[Len(day_requests')] = clock
                 /\ Len(admitted') = Len(admitted) + 1]_vars
    /\ [][\A i \in DOMAIN day_requests :
             day_requests[i] >= clock - DayWindow =>
                 \E j \in DOMAIN day_requests' : day_requests'[j] = day_requests[i]]_vars

\* a call ended after three throttled attempts, each with a slot of its own
C29_Witness ==
    /\ enabled
    /\ pc[1] = "raised"
    /\ calls[1] = retry_attempts
    /\ acquires[1] = retry_attempts
    /\ Len(admitted) >= retry_attempts

(***************************************************************************)
(* Further claims about the recording sessions                             *)
(***************************************************************************)

\* C22: no audio pushed to a recording session is lost: when stop_recording
\* discards the session, every fragment accepted into the buffer until then has
\* been handed to a flush, the fewer than FlushCount fragments still buffered
\* included.
C22_NoFragmentLostAtStop ==
    saved.phase = "done" =>
        \A n \in 1..saved.arrived :
            \E i \in 1..saved.flushed : \E k \in DOMAIN flushes[i] : flushes[i][k] = n

\* C28: the reaper runs every ReaperInterval seconds, so a session in the
\* registry has never been idle for longer than the inactivity timeout plus one
\* interval.
C28_IdleSessionReaped ==
    registry # 0 => stime - ctxs[registry].last_update <= InactivityTimeout + ReaperInterval

(***************************************************************************)
(* Claims about the routes that create jobs                                *)
(***************************************************************************)

\* C30: every job whose row has been committed eventually reaches a terminal
\* status, completed or failed, also when a step between the commit of the row
\* and the scheduling of the background task fails.
C30_CreatedJobTerminates ==
    \A id \in 1..MaxRecords :
        (Len(db_transcriptions) >= id) ~>
            (Len(db_transcriptions) >= id /\ db_transcriptions[id] \in TerminalStatuses)

\* the limiter at rest, for the specifications of the other components
LimiterIdle == InitLimiter /\ enabled

Init == InitLimiter /\ JobIdle /\ ChunkIdle /\ StreamIdle /\ RealtimeIdle /\ UploadIdle

Next == NextLimiter /\ UNCHANGED <<jobVars, chunkVars, streamVars, realtimeVars, uploadVars>>

Spec == Init /\ [][Next]_vars

InitJobSpec == LimiterIdle /\ InitJob /\ ChunkIdle /\ StreamIdle /\ RealtimeIdle /\ UploadIdle

NextJobSpec == NextJob /\ UNCHANGED <<limiterVars, chunkVars, streamVars, realtimeVars, uploadVars>>

SpecJob == InitJobSpec /\ [][NextJobSpec]_vars

InitChunkSpec == LimiterIdle /\ JobIdle /\ InitChunk /\ StreamIdle /\ RealtimeIdle /\ UploadIdle

NextChunkSpec == NextChunk /\ UNCHANGED <<limiterVars, jobVars, streamVars, realtimeVars, uploadVars>>

SpecChunk == InitChunkSpec /\ [][NextChunkSpec]_vars

InitStreamSpec == LimiterIdle /\ JobIdle /\ ChunkIdle /\ InitStream /\ RealtimeIdle /\ UploadIdle

NextStreamSpec == NextStream /\ UNCHANGED <<limiterVars, jobVars, chunkVars, realtimeVars, uploadVars>>

SpecStream == InitStreamSpec /\ [][NextStreamSpec]_vars

InitRecordingSpec == LimiterIdle /\ JobIdle /\ ChunkIdle /\ StreamIdle /\ RealtimeIdle /\ UploadIdle

NextRecordingSpec == NextRecording /\ UNCHANGED <<limiterVars, jobVars, chunkVars, realtimeVars, uploadVars>>

SpecRecording == InitRecordingSpec /\ [][NextRecordingSpec]_vars

InitRealtimeSpec == LimiterIdle /\ JobIdle /\ ChunkIdle /\ StreamIdle /\ RealtimeIdle /\ UploadIdle

NextRealtimeSpec == NextRealtime /\ UNCHANGED <<limiterVars, jobVars, chunkVars, streamVars, uploadVars>>

SpecRealtime == InitRealtimeSpec /\ [][NextRealtimeSpec]_vars

InitSessionsSpec == LimiterIdle /\ JobIdle /\ ChunkIdle /\ StreamIdle /\ RealtimeIdle /\ UploadIdle

NextSessionsSpec == NextSessions /\ UNCHANGED <<limiterVars, jobVars, chunkVars, streamVars, uploadVars>>

SpecSessions == InitSessionsSpec /\ [][NextSessionsSpec]_vars

InitLiveSpec == InitLimiter /\ JobIdle /\ ChunkIdle /\ StreamIdle /\ RealtimeIdle /\ UploadIdle

NextLiveSpec == NextLive /\ UNCHANGED <<jobVars, chunkVars, streamVars, realtimeVars, uploadVars>>

\* every task that can run is run by the event loop, and timers expire
SpecLive ==
    /\ InitLiveSpec
    /\ [][NextLiveSpec]_vars
    /\ \A c \in Callers : WF_vars(CallerStep(c) /\ UNCHANGED <<jobVars, chunkVars, streamVars, realtimeVars, uploadVars>>)
    /\ WF_vars((\E over \in {0, 1} : TimePasses(over)) /\ UNCHANGED <<jobVars, chunkVars, streamVars, realtimeVars, uploadVars>>)

InitRoutesSpec == LimiterIdle /\ JobIdle /\ ChunkIdle /\ StreamIdle /\ RealtimeIdle /\ UploadIdle

NextRoutesSpec ==
    NextRoutes /\ UNCHANGED <<limiterVars, jobVars, chunkVars, streamVars, uploadVars>>

SpecRoutes == InitRoutesSpec /\ [][NextRoutesSpec]_vars

InitUploadSpec == LimiterIdle /\ JobIdle /\ ChunkIdle /\ StreamIdle /\ RealtimeIdle /\ UploadIdle

NextUploadSpec ==
    NextUpload /\ UNCHANGED <<limiterVars, jobVars, chunkVars, streamVars, realtimeVars>>

\* every request that can proceed does
SpecUpload == InitUploadSpec /\ [][NextUploadSpec]_vars /\ WF_vars(NextUploadSpec)

====
